---- MODULE Spec2Model ----
(***************************************************************************)
(* Model of the OCR backend: the validator and the lazily constructed      *)
(* recognition worker of server/ocr.ts, the result store of server/db.ts   *)
(* and the ocr.* procedures of server/routers.ts.                          *)
(*                                                                         *)
(* Every request is an asynchronous handler.  JavaScript runs one handler  *)
(* at a time and switches between handlers only at an await, so an action  *)
(* of the model is the code that runs between two awaits of one handler.   *)
(* Wall-clock readings (processingTimeMs) are left out of the records.     *)
(***************************************************************************)
EXTENDS Integers, Sequences, FiniteSets, TLC

\* ------------------------------------------------------------------ bounds
MaxImages == 2      \* longest images array given to processBatch
MaxRequests == 2    \* procedure calls made in one behaviour
MaxLen == 3         \* largest small buffer length given to validateImageFile
MaxLimit == 3       \* largest small explicit maxSizeBytes

\* The two request handlers that can be in progress at once, and the user
\* each one's session authenticates as.  Any procedure is called on r1; beside
\* it r2 serves the calls that carry one image or none.
Procs == {"r1", "r2"}
SessionUser(p) == IF p = "r1" THEN 1 ELSE 2
BatchProcs == {"r1"}

\* ctx.user === null and ocrWorker === null.
NoUser == 0
NoWorker == 0

\* ---------------------------------------------------------------- ocr.ts
DefaultMaxSizeBytes == 10 * 1024 * 1024
BytesPerMB == 1024 * 1024

allowedMimeTypes == <<"image/jpeg", "image/png", "image/webp", "image/tiff">>

\* Array.prototype.includes
Includes(seq, x) == \E k \in 1..Len(seq) : seq[k] = x

\* The two messages validateImageFile builds.  maxSizeBytes / 1024 / 1024 is
\* kept as the exact fraction <<numerator, denominator>>.
SizeError(maxSizeBytes) ==
    [msg |-> "File size exceeds maximum of ${}MB",
     mb |-> <<maxSizeBytes, BytesPerMB>>]
FormatError ==
    [msg |-> "Unsupported image format. Allowed: ${}",
     allowed |-> allowedMimeTypes]

\* A validateImageFile whose size test is off by one.
ValidateImageFileOffByOne(length, mimeType, maxSizeBytes) ==
    IF length >= maxSizeBytes
    THEN [valid |-> FALSE, error |-> SizeError(maxSizeBytes)]
    ELSE IF ~Includes(allowedMimeTypes, mimeType)
         THEN [valid |-> FALSE, error |-> FormatError]
         ELSE [valid |-> TRUE]

\* A validateImageFile that does not look at the MIME type.
ValidateImageFileAnyType(length, mimeType, maxSizeBytes) ==
    IF length > maxSizeBytes
    THEN [valid |-> FALSE, error |-> SizeError(maxSizeBytes)]
    ELSE [valid |-> TRUE]

\* validateImageFile(buffer, mimeType, maxSizeBytes); only buffer.length is read.
ValidateImageFile(length, mimeType, maxSizeBytes) ==
    IF length > maxSizeBytes
    THEN [valid |-> FALSE, error |-> SizeError(maxSizeBytes)]
    ELSE IF ~Includes(allowedMimeTypes, mimeType)
         THEN [valid |-> FALSE, error |-> FormatError]
         ELSE [valid |-> TRUE]

\* The default of the third parameter: -1 stands for an omitted argument.
MaxSizeOrDefault(maxSizeBytes) ==
    IF maxSizeBytes = -1 THEN DefaultMaxSizeBytes ELSE maxSizeBytes

\* Buffer.from(s, "base64").length for a string of n base64 characters
\* (padding characters not counted).
Base64DecodedLength(n) == (n * 3) \div 4

\* Math.round(confidence * 100), the engine's confidence given in thousandths.
RoundConfidence(perMille) == (perMille + 5) \div 10

\* What worker.recognize can resolve to: data.text and data.confidence.
EngineResults == {[text |-> "hello", confidence |-> 876]}

InitError == [msg |-> "Failed to initialize OCR worker"]
RecognizeError == [msg |-> "recognize rejected"]

\* The two outcomes processImageWithOcr returns.
OcrSuccess(data, language) ==
    [text |-> data.text, confidence |-> RoundConfidence(data.confidence),
     language |-> language, success |-> TRUE]
OcrFailure(error, language) ==
    [text |-> "", confidence |-> 0, language |-> language,
     success |-> FALSE, error |-> error]
NoOutcome == [success |-> FALSE, pending |-> TRUE]

\* ------------------------------------------------------------------ inputs
\* The images a caller can send: imageData is given by its number of base64
\* characters.  The third one decodes to more than 10 MB.
ImagePool ==
    {[imageData |-> 6, fileName |-> "test.png", mimeType |-> "image/png",
      language |-> "eng"],
     [imageData |-> 12, fileName |-> "test.pdf", mimeType |-> "application/pdf",
      language |-> "eng"],
     [imageData |-> 13981016, fileName |-> "big.jpg", mimeType |-> "image/jpeg",
      language |-> "eng"]}

RECURSIVE SeqsUpTo(_, _)
SeqsUpTo(S, n) ==
    IF n = 0 THEN {<<>>}
    ELSE LET shorter == SeqsUpTo(S, n - 1)
         IN  shorter \cup {Append(s, x) : s \in {t \in shorter : Len(t) = n - 1}, x \in S}

ImageLists == SeqsUpTo(ImagePool, MaxImages)

Steps == {"validate", "optimize", "create", "recognize", "put", "save"}
NoCalls == [s \in Steps |-> "none"]

VARIABLES
    pc,          \* where each handler stands
    req,         \* the call's input and ctx.user
    i,           \* processBatch: the loop index (1-based)
    results,     \* processBatch: results
    errors,      \* processBatch: errors
    ocrResult,   \* the value processImageWithOcr returned
    worker,      \* processImageWithOcr: the local worker
    imageUrl,    \* the url storagePut returned
    ret,         \* what the call returned or threw
    calls,       \* history: the steps performed for the current image
    history,     \* history: calls of every image the call has finished
    ocrWorker,   \* ocr.ts: let ocrWorker
    instances,   \* engine instances constructed so far
    tpc,         \* terminateOcrWorker: "idle", "terminating" or "returned"
    terminating, \* instances whose terminate() has been called
    db,          \* rows of the ocrResults table
    inserted,    \* history: every row ever inserted
    nextId,      \* the table's autoincrement
    dbAvailable, \* getDb() returns a connection
    started,     \* procedure calls made
    vIn, vOut    \* a direct call of validateImageFile and its result

vars == <<pc, req, i, results, errors, ocrResult, worker, imageUrl, ret, calls,
          history, ocrWorker, instances, tpc, terminating, db, inserted, nextId,
          dbAvailable, started, vIn, vOut>>

handlerVars == <<pc, req, i, results, errors, ocrResult, worker, imageUrl, ret,
                 calls, history>>
engineVars == <<ocrWorker, instances, tpc, terminating>>
storeVars == <<db, inserted, nextId>>
validateVars == <<vIn, vOut>>

NoRequest == [op |-> "none", user |-> NoUser]
NoReturn == [kind |-> "none"]
NoInput == [length |-> 0, mimeType |-> "", maxSizeBytes |-> -1, called |-> FALSE]

Init ==
    /\ pc = [p \in Procs |-> "idle"]
    /\ req = [p \in Procs |-> NoRequest]
    /\ i = [p \in Procs |-> 0]
    /\ results = [p \in Procs |-> <<>>]
    /\ errors = [p \in Procs |-> <<>>]
    /\ ocrResult = [p \in Procs |-> NoOutcome]
    /\ worker = [p \in Procs |-> NoWorker]
    /\ imageUrl = [p \in Procs |-> <<>>]
    /\ ret = [p \in Procs |-> NoReturn]
    /\ calls = [p \in Procs |-> NoCalls]
    /\ history = [p \in Procs |-> <<>>]
    /\ ocrWorker = NoWorker
    /\ instances = 0
    /\ tpc = "idle"
    /\ terminating = {}
    /\ db = {}
    /\ inserted = {}
    /\ nextId = 1
    /\ dbAvailable \in BOOLEAN
    /\ started = 0
    /\ vIn = NoInput
    /\ vOut = [valid |-> FALSE, pending |-> TRUE]

\* ---------------------------------------------------------------- helpers
\* An action is the completion of one I/O wait of a handler and the code that
\* runs from there to the handler's next I/O wait: the continuations of
\* promises that are already resolved run before any other completion.
Image(p) == req[p].images[i[p]]
Terminal == {"idle", "done", "threw", "rejected"}
Mark(c, step, outcome) == [c EXCEPT ![step] = outcome]

\* The locals of a handler that outlive one image.
Loop(p) ==
    [i |-> i[p], results |-> results[p], errors |-> errors[p],
     history |-> history[p]]
NewLoop == [i |-> 1, results |-> <<>>, errors |-> <<>>, history |-> <<>>]
Finished(b, c) == [b EXCEPT !.history = Append(@, c)]

\* The handler p goes to `state` with the locals b.
Set(p, state, value, b, c) ==
    /\ pc' = [pc EXCEPT ![p] = state]
    /\ ret' = [ret EXCEPT ![p] = value]
    /\ i' = [i EXCEPT ![p] = b.i]
    /\ results' = [results EXCEPT ![p] = b.results]
    /\ errors' = [errors EXCEPT ![p] = b.errors]
    /\ history' = [history EXCEPT ![p] = b.history]
    /\ calls' = [calls EXCEPT ![p] = c]
    /\ imageUrl' = [imageUrl EXCEPT ![p] = <<>>]
    /\ worker' = [worker EXCEPT ![p] = NoWorker]

\* ------------------------------------------------- routers.ts: processBatch
ErrorEntry(image, error) == [fileName |-> image.fileName, error |-> error]

\* Buffer.from(imageData, "base64") and validateImageFile(imageBuffer, mimeType).
Validation(image) ==
    ValidateImageFile(Base64DecodedLength(image.imageData), image.mimeType,
                      MaxSizeOrDefault(-1))

\* A processBatch that skips an invalid image without the errors.push.
BatchInvalidDropped(images, b, error) ==
    [b EXCEPT !.i = @ + 1,
              !.history = Append(@, Mark(NoCalls, "validate", "failed"))]

\* Validation failed: errors.push and continue.
BatchInvalid(images, b, error) ==
    [b EXCEPT !.i = @ + 1,
              !.errors = Append(@, ErrorEntry(images[b.i], error)),
              !.history = Append(@, Mark(NoCalls, "validate", "failed"))]

\* The OCR outcome has success = false: errors.push and continue.
BatchOcrFailed(images, b, error, c) ==
    [b EXCEPT !.i = @ + 1,
              !.errors = Append(@, ErrorEntry(images[b.i], error)),
              !.history = Append(@, c)]

\* catch (error) of the loop body: errors.push, and the loop goes on.
BatchCatch(images, b, error, c) ==
    [b EXCEPT !.i = @ + 1,
              !.errors = Append(@, ErrorEntry(images[b.i], error)),
              !.history = Append(@, c)]

\* results.push at the end of the loop body.
BatchPush(images, b, entry, c) ==
    [b EXCEPT !.i = @ + 1,
              !.results = Append(@, entry),
              !.history = Append(@, c)]

\* The for loop from index b.i on, up to the first image that passes
\* validation or to the end of the array.
RECURSIVE RunLoop(_, _)
RunLoop(images, b) ==
    IF b.i > Len(images) THEN b
    ELSE IF Validation(images[b.i]).valid THEN b
    ELSE RunLoop(images, BatchInvalid(images, b, Validation(images[b.i]).error))

\* The value processBatch returns, with totalFailed taken from the wrong list.
BatchResultMiscounted(b) ==
    [kind |-> "returned", success |-> TRUE, results |-> b.results,
     errors |-> b.errors, totalProcessed |-> Len(b.results),
     totalFailed |-> Len(b.results)]

\* The value processBatch returns.
BatchResult(b) ==
    [kind |-> "returned", success |-> TRUE, results |-> b.results,
     errors |-> b.errors, totalProcessed |-> Len(b.results),
     totalFailed |-> Len(b.errors)]

\* processBatch runs on from the locals b: it returns, or it calls
\* processImageWithOcr for the next valid image and waits in optimizeImage.
Resume(p, images, b) ==
    LET n == RunLoop(images, b)
    IN  IF n.i > Len(images)
        THEN Set(p, "done", BatchResult(n), n, NoCalls)
        ELSE Set(p, "optimize", NoReturn, n, Mark(NoCalls, "validate", "ok"))

\* ------------------------------------------------- routers.ts: processImage
\* catch (error) { throw new Error(error.message) }.
Rethrow(p, error, b) ==
    Set(p, "threw", [kind |-> "threw", error |-> error], b, NoCalls)

\* processImage from its start to its first wait.
StartProcessImage(p, image) ==
    IF Validation(image).valid
    THEN Set(p, "optimize", NoReturn, NewLoop, Mark(NoCalls, "validate", "ok"))
    ELSE Rethrow(p, Validation(image).error,
                 Finished(NewLoop, Mark(NoCalls, "validate", "failed")))

\* --------------------------------------------------- the two handlers alike
\* processImageWithOcr returned success = false.
OcrFailed(p, error, c) ==
    IF req[p].op = "processBatch"
    THEN Resume(p, req[p].images, BatchOcrFailed(req[p].images, Loop(p), error, c))
    ELSE Rethrow(p, error, Finished(Loop(p), c))

\* A handler in which the exception of storagePut or saveOcrResult ends the call.
ThrownUncaught(p, error, c) == Rethrow(p, error, Finished(Loop(p), c))

\* storagePut or saveOcrResult threw.
Thrown(p, error, c) ==
    IF req[p].op = "processBatch"
    THEN Resume(p, req[p].images, BatchCatch(req[p].images, Loop(p), error, c))
    ELSE Rethrow(p, error, Finished(Loop(p), c))

ResultEntry(p) ==
    [fileName |-> Image(p).fileName, text |-> ocrResult[p].text,
     confidence |-> ocrResult[p].confidence, imageUrl |-> imageUrl[p],
     success |-> TRUE]

\* saveOcrResult returned: results.push, or the return of processImage.
Succeeded(p, c) ==
    IF req[p].op = "processBatch"
    THEN Resume(p, req[p].images,
                BatchPush(req[p].images, Loop(p), ResultEntry(p), c))
    ELSE Set(p, "done",
             [kind |-> "returned", success |-> TRUE,
              fileName |-> Image(p).fileName, text |-> ocrResult[p].text,
              confidence |-> ocrResult[p].confidence, imageUrl |-> imageUrl[p]],
             Finished(Loop(p), c), NoCalls)

\* nanoid(): an id no other call of it returns, here the place of the call.
Nanoid(p) == <<p, req[p].n, i[p]>>

\* fileKey = `ocr/${ctx.user.id}/${nanoid()}-${fileName}` and storagePut is
\* called; the url it will resolve with is the url of that key.
CallStoragePut(p, c) ==
    /\ imageUrl' = [imageUrl EXCEPT ![p] =
                       <<"ocr", req[p].user, Nanoid(p), Image(p).fileName>>]
    /\ pc' = [pc EXCEPT ![p] = "put"]
    /\ calls' = [calls EXCEPT ![p] = c]
    /\ worker' = [worker EXCEPT ![p] = NoWorker]
    /\ UNCHANGED <<i, results, errors, ret, history>>

\* A handler that uploads whatever processImageWithOcr returned.
AfterOcrUngated(p, outcome, c) ==
    /\ ocrResult' = [ocrResult EXCEPT ![p] = outcome]
    /\ CallStoragePut(p, c)

\* The handler resumes with the outcome of processImageWithOcr.
AfterOcr(p, outcome, c) ==
    /\ ocrResult' = [ocrResult EXCEPT ![p] = outcome]
    /\ IF outcome.success
       THEN CallStoragePut(p, c)
       ELSE OcrFailed(p, outcome.error, c)

\* ----------------------------------------------------- the procedure calls
Unauthorized == [msg |-> "UNAUTHORIZED"]

\* A protectedProcedure that lets every caller through.
ProtectedProcedureOpen(user) == TRUE

\* protectedProcedure: the handler is reached only with a user in the context.
ProtectedProcedure(user) == user # NoUser

\* A router that declares processBatch as a publicProcedure.
ProcedureKindBatchPublic(op) ==
    IF op = "processBatch" THEN "public" ELSE "protected"

\* The router declares processImage, deleteResult and processBatch with
\* protectedProcedure.
ProcedureKind(op) == "protected"

\* The calls a client can make: with the session's user any input, and without
\* a user one call of each procedure.
Inputs(p) ==
    {[op |-> "processBatch", images |-> l] :
        l \in IF p \in BatchProcs THEN ImageLists ELSE {}}
    \cup {[op |-> "processImage", images |-> <<im>>] : im \in ImagePool}
    \cup {[op |-> "deleteResult", id |-> id] : id \in 1..nextId}
AnonymousInputs(p) ==
    {in \in Inputs(p) :
        \/ in.op = "processBatch" /\ Len(in.images) = 1
                /\ Validation(in.images[1]).valid
        \/ in.op = "processImage" /\ Validation(in.images[1]).valid
        \/ in.op = "deleteResult" /\ in.id = 1}
Request(in, user) ==
    IF in.op = "deleteResult"
    THEN [op |-> in.op, user |-> user, id |-> in.id, n |-> started]
    ELSE [op |-> in.op, user |-> user, images |-> in.images, n |-> started]
Requests(p) ==
    {Request(in, SessionUser(p)) : in \in Inputs(p)}
    \cup {Request(in, NoUser) : in \in AnonymousInputs(p)}

\* deleteResult up to the delete statement; without a database
\* deleteOcrResult returns false and the procedure returns.
StartDeleteResult(p) ==
    IF dbAvailable
    THEN Set(p, "delete", NoReturn, NewLoop, NoCalls)
    ELSE Set(p, "done", [kind |-> "returned", success |-> TRUE], NewLoop, NoCalls)

\* A client calls a procedure on a handler that is free.
Call(p) ==
    /\ pc[p] \in Terminal
    /\ started < MaxRequests
    /\ \E r \in Requests(p) :
        /\ req' = [req EXCEPT ![p] = r]
        /\ IF ProcedureKind(r.op) = "protected" /\ ~ProtectedProcedure(r.user)
           THEN Set(p, "rejected", [kind |-> "threw", error |-> Unauthorized],
                    NewLoop, NoCalls)
           ELSE CASE r.op = "processBatch" -> Resume(p, r.images, NewLoop)
                  [] r.op = "processImage" -> StartProcessImage(p, r.images[1])
                  [] r.op = "deleteResult" -> StartDeleteResult(p)
    /\ started' = started + 1
    /\ ocrResult' = [ocrResult EXCEPT ![p] = NoOutcome]
    /\ UNCHANGED <<dbAvailable, engineVars, storeVars, validateVars>>

\* ------------------------------------------------ ocr.ts: processImageWithOcr
\* getOcrWorker up to its wait: if (!ocrWorker) createWorker("eng") is called,
\* else the instance held is returned and worker.recognize is called on it.
GetOcrWorker(p) ==
    IF ocrWorker = NoWorker
    THEN /\ pc' = [pc EXCEPT ![p] = "creating"]
         /\ UNCHANGED worker
    ELSE /\ pc' = [pc EXCEPT ![p] = "recognizing"]
         /\ worker' = [worker EXCEPT ![p] = ocrWorker]

\* optimizeImage resolves, with the grayscale copy or, after a failure, with
\* the original buffer: nothing but recognize reads the buffer.
OptimizeImage(p) ==
    /\ pc[p] = "optimize"
    /\ calls' = [calls EXCEPT ![p] = Mark(calls[p], "optimize", "done")]
    /\ GetOcrWorker(p)
    /\ UNCHANGED <<req, i, results, errors, ocrResult, imageUrl, ret, history>>
    /\ UNCHANGED <<dbAvailable, started, engineVars, storeVars, validateVars>>

\* createWorker resolves: ocrWorker = <the new instance>; return ocrWorker;
\* worker.recognize is called on it.
CreateWorkerResolves(p) ==
    /\ pc[p] = "creating"
    /\ instances' = instances + 1
    /\ ocrWorker' = instances + 1
    /\ worker' = [worker EXCEPT ![p] = instances + 1]
    /\ pc' = [pc EXCEPT ![p] = "recognizing"]
    /\ calls' = [calls EXCEPT ![p] = Mark(calls[p], "create", "ok")]
    /\ UNCHANGED <<req, i, results, errors, ocrResult, imageUrl, ret, history>>
    /\ UNCHANGED <<tpc, terminating, dbAvailable, started, storeVars, validateVars>>

\* createWorker rejects: getOcrWorker throws, processImageWithOcr catches and
\* returns the failure outcome.
CreateWorkerRejects(p) ==
    /\ pc[p] = "creating"
    /\ AfterOcr(p, OcrFailure(InitError, Image(p).language),
                Mark(calls[p], "create", "failed"))
    /\ UNCHANGED <<req, dbAvailable, started, engineVars, storeVars, validateVars>>

\* worker.recognize resolves.
RecognizeResolves(p) ==
    /\ pc[p] = "recognizing"
    /\ \E data \in EngineResults :
        AfterOcr(p, OcrSuccess(data, Image(p).language),
                 Mark(calls[p], "recognize", "ok"))
    /\ UNCHANGED <<req, dbAvailable, started, engineVars, storeVars, validateVars>>

\* worker.recognize rejects.
RecognizeRejects(p) ==
    /\ pc[p] = "recognizing"
    /\ AfterOcr(p, OcrFailure(RecognizeError, Image(p).language),
                Mark(calls[p], "recognize", "failed"))
    /\ UNCHANGED <<req, dbAvailable, started, engineVars, storeVars, validateVars>>

\* ------------------------------------------------ storagePut, saveOcrResult
StorageError == [msg |-> "storagePut rejected"]
InsertError == [msg |-> "insert rejected"]

\* storagePut resolves and saveOcrResult is called: without a database it
\* returns undefined, else it waits for the insert.
StoragePutResolves(p) ==
    /\ pc[p] = "put"
    /\ IF dbAvailable
       THEN /\ pc' = [pc EXCEPT ![p] = "save"]
            /\ calls' = [calls EXCEPT ![p] = Mark(calls[p], "put", "ok")]
            /\ UNCHANGED <<i, results, errors, worker, imageUrl, ret, history>>
       ELSE Succeeded(p, Mark(Mark(calls[p], "put", "ok"), "save", "skipped"))
    /\ UNCHANGED <<req, ocrResult, dbAvailable, started>>
    /\ UNCHANGED <<engineVars, storeVars, validateVars>>

\* storagePut rejects.
StoragePutRejects(p) ==
    /\ pc[p] = "put"
    /\ Thrown(p, StorageError, Mark(calls[p], "put", "failed"))
    /\ UNCHANGED <<req, ocrResult, dbAvailable, started>>
    /\ UNCHANGED <<engineVars, storeVars, validateVars>>

\* The row saveOcrResult is given, with the id the table assigns.
Row(p) ==
    [id |-> nextId, userId |-> req[p].user,
     imageFileName |-> Image(p).fileName, imageUrl |-> imageUrl[p],
     extractedText |-> ocrResult[p].text, confidence |-> ocrResult[p].confidence,
     language |-> Image(p).language]

\* saveOcrResult: db.insert(ocrResults).values(result) resolves.
SaveOcrResultInserts(p) ==
    /\ pc[p] = "save"
    /\ db' = db \cup {Row(p)}
    /\ inserted' = inserted \cup {Row(p)}
    /\ nextId' = nextId + 1
    /\ Succeeded(p, Mark(calls[p], "save", "ok"))
    /\ UNCHANGED <<req, ocrResult, dbAvailable, started>>
    /\ UNCHANGED <<engineVars, validateVars>>

\* saveOcrResult: the insert rejects and the error is thrown on.
SaveOcrResultRejects(p) ==
    /\ pc[p] = "save"
    /\ Thrown(p, InsertError, Mark(calls[p], "save", "failed"))
    /\ UNCHANGED <<req, ocrResult, dbAvailable, started>>
    /\ UNCHANGED <<engineVars, storeVars, validateVars>>

\* ------------------------------------------------- db.ts: deleteOcrResult
\* A delete that matches on the id alone.
DeleteWhereIdOnly(rows, id, userId) == {r \in rows : r.id # id}

\* delete ... where and(eq(id, id), eq(userId, userId)): the rows left.
DeleteWhere(rows, id, userId) ==
    {r \in rows : ~(r.id = id /\ r.userId = userId)}

\* The delete statement resolves; deleteResult returns.
DeleteOcrResult(p) ==
    /\ pc[p] = "delete"
    /\ db' = DeleteWhere(db, req[p].id, req[p].user)
    /\ Set(p, "done", [kind |-> "returned", success |-> TRUE], NewLoop, NoCalls)
    /\ UNCHANGED <<req, ocrResult, dbAvailable, started, inserted, nextId>>
    /\ UNCHANGED <<engineVars, validateVars>>

\* The delete statement rejects; deleteResult throws its own message.
DeleteOcrResultRejects(p) ==
    /\ pc[p] = "delete"
    /\ Set(p, "threw",
           [kind |-> "threw", error |-> [msg |-> "Failed to delete OCR result"]],
           NewLoop, NoCalls)
    /\ UNCHANGED <<req, ocrResult, dbAvailable, started>>
    /\ UNCHANGED <<engineVars, storeVars, validateVars>>

\* ------------------------------------------------ ocr.ts: terminateOcrWorker
\* terminateOcrWorker up to its wait: if (ocrWorker) ocrWorker.terminate() is
\* called; with no instance held the function returns at once.
TerminateOcrWorker ==
    /\ tpc # "terminating"
    /\ IF ocrWorker # NoWorker
       THEN /\ tpc' = "terminating"
            /\ terminating' = terminating \cup {ocrWorker}
       ELSE /\ tpc' = "returned"
            /\ UNCHANGED terminating
    /\ UNCHANGED <<ocrWorker, instances>>
    /\ UNCHANGED <<handlerVars, storeVars, validateVars, started, dbAvailable>>

\* terminate() resolves: ocrWorker = null; the function returns.
TerminateResolves ==
    /\ tpc = "terminating"
    /\ tpc' = "returned"
    /\ ocrWorker' = NoWorker
    /\ UNCHANGED <<instances, terminating>>
    /\ UNCHANGED <<handlerVars, storeVars, validateVars, started, dbAvailable>>

\* terminate() rejects: the error is caught and logged, the assignment of null
\* is skipped; the function returns.
TerminateRejects ==
    /\ tpc = "terminating"
    /\ tpc' = "returned"
    /\ UNCHANGED <<ocrWorker, instances, terminating>>
    /\ UNCHANGED <<handlerVars, storeVars, validateVars, started, dbAvailable>>

\* ------------------------------------------------------------ specification
\* The procedures of the router, called concurrently.  terminateOcrWorker has
\* no caller in the router and is not among these actions.
Next ==
    \/ \E p \in Procs : Call(p)
    \/ \E p \in Procs : OptimizeImage(p)
    \/ \E p \in Procs : CreateWorkerResolves(p)
    \/ \E p \in Procs : CreateWorkerRejects(p)
    \/ \E p \in Procs : RecognizeResolves(p)
    \/ \E p \in Procs : RecognizeRejects(p)
    \/ \E p \in Procs : StoragePutResolves(p)
    \/ \E p \in Procs : StoragePutRejects(p)
    \/ \E p \in Procs : SaveOcrResultInserts(p)
    \/ \E p \in Procs : SaveOcrResultRejects(p)
    \/ \E p \in Procs : DeleteOcrResult(p)
    \/ \E p \in Procs : DeleteOcrResultRejects(p)

Spec == Init /\ [][Next]_vars

\* ------------------------------------------- validateImageFile on its own
MimeTypes ==
    {allowedMimeTypes[k] : k \in 1..Len(allowedMimeTypes)}
    \cup {"application/pdf", "text/plain", "video/mp4", ""}
Lengths ==
    (0..MaxLen) \cup {DefaultMaxSizeBytes - 1, DefaultMaxSizeBytes,
                      DefaultMaxSizeBytes + 1, 15 * BytesPerMB}
\* -1: the argument is omitted.
Limits == {-1} \cup (0..MaxLimit) \cup {5 * BytesPerMB, DefaultMaxSizeBytes}

\* validateImageFile is called with a buffer of some length.
CallValidateImageFile ==
    /\ \E length \in Lengths, mimeType \in MimeTypes, maxSizeBytes \in Limits :
        /\ vIn' = [length |-> length, mimeType |-> mimeType,
                   maxSizeBytes |-> maxSizeBytes, called |-> TRUE]
        /\ vOut' = ValidateImageFile(length, mimeType,
                                     MaxSizeOrDefault(maxSizeBytes))
    /\ UNCHANGED <<handlerVars, engineVars, storeVars, dbAvailable, started>>

NextValidate == CallValidateImageFile

SpecValidate == Init /\ [][NextValidate]_vars

\* ------------------------- the router's procedures and terminateOcrWorker
\* terminateOcrWorker is exported by ocr.ts: its caller may run it at any
\* moment of the procedures' work.
NextTerminate ==
    \/ Next
    \/ TerminateOcrWorker
    \/ TerminateResolves
    \/ TerminateRejects

SpecTerminate == Init /\ [][NextTerminate]_vars

\* ------------------------------------------------------------------ claims
IsBatch(p) == req[p].op = "processBatch"
IsSingle(p) == req[p].op = "processImage"
Failed(c) == \E s \in Steps : c[s] = "failed"
FileNames(entries) == [j \in 1..Len(entries) |-> entries[j].fileName]
\* The file names of the images whose steps did (or did not) fail, in the
\* order of the input.
NamesWhere(images, h, failed) ==
    LET idx == SelectSeq([k \in 1..Len(h) |-> k], LAMBDA k : Failed(h[k]) = failed)
    IN  [j \in 1..Len(idx) |-> images[idx[j]].fileName]

\* C1: what processBatch returns has len(results) = totalProcessed,
\* len(errors) = totalFailed and totalProcessed + totalFailed = len(images),
\* whatever the outcome of each image's steps; for the empty list it is
\* results = [], errors = [], 0 and 0.
C1_BatchTotals ==
    \A p \in Procs :
        (IsBatch(p) /\ pc[p] = "done") =>
            /\ ret[p].kind = "returned"
            /\ Len(ret[p].results) = ret[p].totalProcessed
            /\ Len(ret[p].errors) = ret[p].totalFailed
            /\ ret[p].totalProcessed + ret[p].totalFailed = Len(req[p].images)
            /\ (req[p].images = <<>> =>
                    /\ ret[p].results = <<>> /\ ret[p].errors = <<>>
                    /\ ret[p].totalProcessed = 0 /\ ret[p].totalFailed = 0)

\* A batch of two images returned one result and one error.
C1_Witness ==
    \E p \in Procs :
        /\ IsBatch(p) /\ pc[p] = "done" /\ Len(req[p].images) = 2
        /\ ret[p].totalProcessed = 1 /\ ret[p].totalFailed = 1

\* C2: processBatch never throws for a failure of one image; an image whose
\* validation, recognition, upload or save failed has exactly one entry in
\* errors, with its file name; every later image is still processed and has
\* exactly one entry in results or in errors; both lists are in input order.
C2_FailureIsolation ==
    \A p \in Procs :
        IsBatch(p) /\ req[p].user # NoUser =>
            /\ pc[p] # "threw"
            /\ Len(history[p]) <= Len(req[p].images)
            /\ (pc[p] = "done" => Len(history[p]) = Len(req[p].images))
            /\ FileNames(errors[p]) = NamesWhere(req[p].images, history[p], TRUE)
            /\ FileNames(results[p]) = NamesWhere(req[p].images, history[p], FALSE)

\* The upload or the save of the first image threw, and the second image of
\* the batch went through to results.
C2_Witness ==
    \E p \in Procs :
        /\ IsBatch(p) /\ pc[p] = "done" /\ Len(history[p]) = 2
        /\ (history[p][1].put = "failed" \/ history[p][1].save = "failed")
        /\ history[p][2].save = "ok"
        /\ Len(ret[p].errors) = 1 /\ Len(ret[p].results) = 1

\* C3: while the wrapper is uninitialized and a construction is in progress,
\* createWorker is not called again, and one engine instance is all that is
\* ever constructed (nothing terminates one here).
C3_SingleConstruction ==
    /\ Cardinality({p \in Procs : pc[p] = "creating"}) <= 1
    /\ instances <= 1

\* C4: at most one worker.recognize call is in flight on one engine instance.
C4_RecognizeSerialized ==
    \A p, q \in Procs :
        (p # q /\ pc[p] = "recognizing" /\ pc[q] = "recognizing")
            => worker[p] # worker[q]

\* C5: validateImageFile returns valid = true exactly when the length is at
\* most maxSizeBytes and the MIME type is one of the four allowed; above the
\* limit the error states the limit in MB whatever the MIME type; a MIME type
\* outside the list is invalid whatever the size.
C5_Limit == IF vIn.maxSizeBytes = -1 THEN 10 * 1024 * 1024 ELSE vIn.maxSizeBytes
C5_Allowed == {"image/jpeg", "image/png", "image/webp", "image/tiff"}
C5_ValidateContract ==
    vIn.called =>
        /\ vOut.valid <=> (vIn.length <= C5_Limit /\ vIn.mimeType \in C5_Allowed)
        /\ (vIn.length > C5_Limit =>
                /\ ~vOut.valid
                /\ vOut.error.msg = "File size exceeds maximum of ${}MB"
                /\ vOut.error.mb = <<C5_Limit, 1024 * 1024>>)
        /\ (vIn.mimeType \notin C5_Allowed => ~vOut.valid)

\* A buffer over the limit with a MIME type outside the list got the size error.
C5_Witness ==
    /\ vIn.called /\ vIn.length > C5_Limit /\ vIn.mimeType \notin C5_Allowed
    /\ ~vOut.valid /\ vOut.error.mb = <<C5_Limit, 1024 * 1024>>

\* C6: a processImage or processBatch call without a user is rejected with an
\* error, and no validation, optimization, construction, recognition, upload
\* or save is done for it.
C6_Unauthenticated ==
    \A p \in Procs :
        ((IsBatch(p) \/ IsSingle(p)) /\ req[p].user = NoUser) =>
            /\ pc[p] = "rejected"
            /\ ret[p].kind = "threw"
            /\ calls[p] = NoCalls /\ history[p] = <<>>
            /\ results[p] = <<>> /\ errors[p] = <<>>
            /\ worker[p] = NoWorker /\ imageUrl[p] = <<>>
            /\ \A r \in inserted : r.userId # NoUser

\* A call without a user was rejected while the other handler was at work
\* for a user.
C6_Witness ==
    \E p, q \in Procs :
        /\ p # q /\ IsBatch(p) /\ req[p].user = NoUser /\ pc[p] = "rejected"
        /\ req[p].images # <<>> /\ Validation(req[p].images[1]).valid
        /\ pc[q] = "recognizing"

\* C7: when createWorker rejects, the wrapper holds no instance afterwards (so
\* the next call constructs again) and processImageWithOcr returns
\* success = false, text = "", confidence = 0 and the error "Failed to
\* initialize OCR worker".
C7_FailedConstruction ==
    [][\A p \in Procs :
          (pc[p] = "creating" /\ pc'[p] \notin {"creating", "recognizing"}) =>
              /\ ocrWorker' = NoWorker
              /\ ocrResult'[p].success = FALSE
              /\ ocrResult'[p].text = ""
              /\ ocrResult'[p].confidence = 0
              /\ ocrResult'[p].error = [msg |-> "Failed to initialize OCR worker"]
      ]_vars

\* C8: every entry of results and every return of processImage has exactly one
\* row saved for that user, file name and url, and no row is saved for an
\* image reported in errors.
C8_RowsOf(p, fileName, url) ==
    {r \in inserted : r.userId = req[p].user /\ r.imageFileName = fileName
                      /\ r.imageUrl = url}
C8_OneRecordPerResult ==
    \A p \in Procs :
        /\ IsBatch(p) =>
              \A k \in 1..Len(results[p]) :
                  Cardinality(C8_RowsOf(p, results[p][k].fileName,
                                        results[p][k].imageUrl)) = 1
        /\ (IsSingle(p) /\ pc[p] = "done") =>
              Cardinality(C8_RowsOf(p, ret[p].fileName, ret[p].imageUrl)) = 1
        /\ (IsBatch(p) \/ IsSingle(p)) =>
              \A k \in 1..Len(history[p]) :
                  Failed(history[p][k]) =>
                      \A r \in inserted : r.imageUrl[3] # <<p, req[p].n, k>>

\* C9: a deleteResult call of user u removes no row of another user: the rows
\* of every other user are the same after it.
C9_DeleteOnlyOwn ==
    [][\A p \in Procs :
          (pc[p] = "delete" /\ pc'[p] # "delete") =>
              {r \in db' : r.userId # req[p].user}
                  = {r \in db : r.userId # req[p].user}
      ]_vars

\* A user's deleteResult named the row of another user and returned; the row
\* is still there.
C9_Witness ==
    \E p \in Procs :
        /\ req[p].op = "deleteResult" /\ pc[p] = "done" /\ req[p].user # NoUser
        /\ \E r \in db : r.id = req[p].id /\ r.userId # req[p].user

\* C10: for one image, processImageWithOcr runs only after validation passed,
\* storagePut only after the OCR returned success = true, saveOcrResult only
\* after storagePut returned a url, and no step runs after one that failed.
StepOrder == <<"validate", "optimize", "create", "recognize", "put", "save">>
C10_Gated(c) ==
    /\ (c.optimize # "none" \/ c.create # "none" \/ c.recognize # "none")
          => c.validate = "ok"
    /\ c.put # "none" => c.recognize = "ok"
    /\ c.save # "none" => c.put = "ok"
    /\ \A a, b \in 1..Len(StepOrder) :
          (a < b /\ c[StepOrder[a]] = "failed") => c[StepOrder[b]] = "none"
C10_StepsGated ==
    \A p \in Procs :
        /\ C10_Gated(calls[p])
        /\ \A k \in 1..Len(history[p]) : C10_Gated(history[p][k])
        /\ pc[p] \in {"optimize", "creating", "recognizing"}
              => calls[p].validate = "ok"
        /\ pc[p] = "put" => (calls[p].recognize = "ok" /\ ocrResult[p].success)
        /\ pc[p] = "save" => calls[p].put = "ok"

\* In one batch the recognition of the first image failed and the second image
\* went through every step.
C10_Witness ==
    \E p \in Procs :
        /\ Len(history[p]) = 2
        /\ history[p][1].recognize = "failed"
        /\ history[p][2].save = "ok"

\* C11: terminateOcrWorker never raises to its caller, and at the moment it
\* returns the wrapper holds no engine instance (ocrWorker is null), so that
\* the next getOcrWorker constructs a new engine.
C11_TerminateUninitializes ==
    [][(tpc' # tpc /\ tpc' # "terminating") =>
          (tpc' = "returned" /\ ocrWorker' = NoWorker)
      ]_vars

\* C12: no worker.recognize call is issued on, or in flight on, an engine
\* instance whose terminate() has been started: every handler that waits for
\* recognize holds an instance that terminateOcrWorker has not touched.
C12_RecognizeOnLiveInstance ==
    \A p \in Procs : pc[p] = "recognizing" => worker[p] \notin terminating

====
